---- MODULE Spec2Model ----
(***************************************************************************)
(* A model of dcarr.h, a generic array deque implemented as C macros       *)
(* over a circular buffer, and of its demo program dcarr-demo.c.           *)
(*                                                                         *)
(* The struct fields keep their names: els, cap, off, len.  The buffer     *)
(* els is a sequence whose length is the number of slots the allocator     *)
(* gave out at the last realloc; physical slot p is els[p + 1], and the    *)
(* NULL pointer is the empty sequence.  A slot the program never wrote     *)
(* holds Indet.  Arithmetic on cap, off and len is that of unsigned int:    *)
(* modulo 2^Width.                                                         *)
(***************************************************************************)
EXTENDS Integers, Sequences, FiniteSets, TLC

VARIABLES
    els,      \* the buffer
    cap,      \* number of slots the deque believes it has
    off,      \* physical index of the first element
    len,      \* number of elements
    status,   \* "ok"; "tainted": the last call went through undefined
              \* behaviour and came back; "crashed": it did not;
              \* "exit": dcarr_oom ran; "destroyed"
    ref,      \* the reference sequence: what a plain list would hold
    last,     \* the last operation, its arguments and the element it gave
    front,    \* the caller's number for the element at the front
    mid,      \* calls of dcarr_insert, dcarr_resize and dcarr_sort so far
    pc,       \* where main of dcarr-demo.c stands
    main_i,   \* main's variable i
    out       \* the elements the running call of dumparray has printed

vars == <<els, cap, off, len, status, ref, last, front, mid, pc, main_i, out>>

\* main's own state, which the calls of a caller other than main leave alone
demo == <<pc, main_i, out>>

\* ------------------------------------------------------------- bounds
\* Callers insert only while len < MaxLen.
MaxLen == 9
\* The front of the deque stays within MaxShift elements of where it began.
MaxShift == 3
\* Between dcarr_init and dcarr_destroy the caller calls dcarr_insert,
\* dcarr_resize and dcarr_sort at most MaxMid times in all, after it is
\* done with dcarr_push, dcarr_unshift, dcarr_pop and dcarr_shift.
MaxMid == 1
\* An unwritten slot turns out to hold one of 0 .. MaxGarbage.
MaxGarbage == 1
\* dcarr_resize grows the length by at most MaxGrow slots per call.
MaxGrow == 2
\* A caller of dcarr_reserve asks for at most MaxReserve slots.
MaxReserve == 9

\* The width of unsigned int and int.  It is 32 on the usual targets; TLC's
\* integers end at 2^31 - 1, so the model counts modulo a smaller power of two,
\* one that lengths within reach of TLC can overflow.
Width == 8

\* ------------------------------------------------ program constants
\* the smallest capacity dcarr_reserve allocates, the floor of dcarr_reduce_size
MinCap == 8

UintMod == 2 ^ Width
Wrap(x) == x % UintMod
\* The shortest length whose fourfold does not fit an unsigned int, and one more
WideLen == UintMod \div 4 + 1
\* Half of what an unsigned int counts
LongLen == UintMod \div 2

\* The content of memory the program has not written: some int, not known.
Indet == -1
\* The values an unwritten slot may turn out to hold
Garbage == 0 .. MaxGarbage
\* The values callers store.  The caller numbers the elements as they would
\* lie on a tape, the first one ever stored being number 0, and stores a
\* value that falls as the number rises: the elements of a deque all differ,
\* so that an element lost, doubled or out of place shows, and they lie in
\* descending order, so that sorting has to move every one of them.
Top == 2 * MaxShift + MaxLen + WideLen + LongLen + LongLen \div 4 + 4
Numbered(n) == Top - 2 - MaxShift - n
\* What dcarr_insert is given: a value below all the numbered ones, or one above
LowMark == Numbered(MaxShift + MaxLen + WideLen + LongLen + LongLen \div 4 + 1)
HighMark == Top

\* x & y on unsigned ints
RECURSIVE BitAnd(_, _)
BitAnd(x, y) ==
    IF x = 0 \/ y = 0 THEN 0
    ELSE (x % 2) * (y % 2) + 2 * BitAnd(x \div 2, y \div 2)

\* ------------------------------------------------------ memory model
\* els[p], read through a pointer that may lie outside the allocated block
Rd(e, p) == IF p >= 0 /\ p < Len(e) THEN e[p + 1] ELSE Indet

\* TRUE when [p, p + n) is not inside the block
Outside(e, p, n) == n > 0 /\ (p < 0 \/ p + n > Len(e))

\* memmove(&els[dst], &els[src], n slots): the part of the copy that lands
\* inside the block; the source is read as it was before the call
MemMove(e, dst, src, n) ==
    [q \in 1 .. Len(e) |->
        IF q - 1 >= dst /\ q - 1 < dst + n THEN Rd(e, (q - 1) - dst + src)
        ELSE e[q]]

\* memset(&els[dst], 0, n slots)
MemSet(e, dst, n) ==
    [q \in 1 .. Len(e) |-> IF q - 1 >= dst /\ q - 1 < dst + n THEN 0 ELSE e[q]]

\* realloc(els, n slots) when it succeeds: the old content up to the smaller
\* of the two sizes, the rest unwritten
Realloc(e, n) == [q \in 1 .. n |-> IF q <= Len(e) THEN e[q] ELSE Indet]

\* ------------------------------------------------------------ dcarr.h
\* A deque value in the middle of a macro: the struct, the caller's variable
\* that receives a removed element, and what has gone wrong so far (ub: an
\* access outside the block or through NULL, or an overlapping memcpy; oom:
\* dcarr_oom ran and the process exited).
Arr(e, c, o, l, v) == [els |-> e, cap |-> c, off |-> o, len |-> l, value |-> v,
                       ub |-> FALSE, oom |-> FALSE]

dcarr_idx(a, i) == BitAnd(Wrap(a.off + i), Wrap(a.cap - 1))

dcarr_len(a) == a.len

dcarr_elem(a, i) == Rd(a.els, dcarr_idx(a, i))

\* The logical content, get(0) .. get(len - 1)
Content(a) == [k \in 1 .. a.len |-> dcarr_elem(a, k - 1)]

\* a.els[p] = v
Store(a, p, v) ==
    IF p < Len(a.els)
    THEN [a EXCEPT !.els = [a.els EXCEPT ![p + 1] = v]]
    ELSE [a EXCEPT !.ub = TRUE]

\* value = a.els[p]
Load(a, p) == [a EXCEPT !.value = Rd(a.els, p), !.ub = a.ub \/ Outside(a.els, p, 1)]

\* memmove / memcpy / memset on a.els, with the flag of what they touch
Move(a, dst, src, n) ==
    [a EXCEPT !.els = MemMove(a.els, dst, src, n),
              !.ub = a.ub \/ Outside(a.els, dst, n) \/ Outside(a.els, src, n)]

Copy(a, dst, src, n) ==
    [a EXCEPT !.els = MemMove(a.els, dst, src, n),
              !.ub = a.ub \/ Outside(a.els, dst, n) \/ Outside(a.els, src, n)
                          \/ (n > 0 /\ dst < src + n /\ src < dst + n)]

Zero(a, dst, n) ==
    [a EXCEPT !.els = MemSet(a.els, dst, n), !.ub = a.ub \/ Outside(a.els, dst, n)]

\* A variant of the growth loop of dcarr_reserve that doubles once only
GrowCapOnce(c, l, n) == IF c >= MinCap THEN Wrap(c * 2) ELSE MinCap

\* the do-while of dcarr_reserve: the new capacity
RECURSIVE GrowCap(_, _, _)
GrowCap(c, l, n) ==
    LET c1 == IF c >= MinCap THEN Wrap(c * 2) ELSE MinCap
    IN  IF Wrap(l + n) > c1 THEN GrowCap(c1, l, n) ELSE c1

\* A variant of the halving loop of dcarr_reduce_size, without its floor of 8
RECURSIVE ShrinkCapNoFloor(_, _)
ShrinkCapNoFloor(c, l) ==
    LET c1 == c \div 2
    IN  IF Wrap(l * 4) <= c1 /\ c1 > 0 THEN ShrinkCapNoFloor(c1, l) ELSE c1

\* A variant of the halving loop of dcarr_reduce_size that halves once only
ShrinkCapOnce(c, l) == c \div 2

\* the do-while of dcarr_reduce_size: the new capacity
RECURSIVE ShrinkCap(_, _)
ShrinkCap(c, l) ==
    LET c1 == c \div 2
    IN  IF Wrap(l * 4) <= c1 /\ c1 > MinCap THEN ShrinkCap(c1, l) ELSE c1

\* A variant of dcarr_reserve that leaves a wrapped content where it is
dcarr_reserve_still(a, n, fail) ==
    IF Wrap(a.len + n) > a.cap
    THEN LET c == GrowCap(a.cap, a.len, n)
         IN  IF fail THEN [a EXCEPT !.cap = c, !.els = <<>>, !.oom = TRUE]
             ELSE [a EXCEPT !.cap = c, !.els = Realloc(a.els, c)]
    ELSE a

\* dcarr_reserve(a, eltype, n); fail: dcarr_realloc returns NULL
dcarr_reserve(a, n, fail) ==
    IF Wrap(a.len + n) > a.cap
    THEN LET cap0 == a.cap
             c == GrowCap(a.cap, a.len, n)
             d == Wrap(c - cap0)
             a1 == [a EXCEPT !.cap = c, !.els = Realloc(a.els, c)]
         IN  IF fail THEN [a EXCEPT !.cap = c, !.els = <<>>, !.oom = TRUE]
             ELSE IF Wrap(a.off + a.len) > cap0
             THEN \* it wraps around: make it wrap around the new boundary
                  [Zero(Move(a1, Wrap(a.off + d), a.off, d), a.off, d)
                      EXCEPT !.off = Wrap(a.off + d)]
             ELSE a1
    ELSE a

\* dcarr_reduce_size(a, eltype); fail: dcarr_realloc returns NULL
dcarr_reduce_size(a, fail) ==
    IF Wrap(a.len * 4) <= a.cap /\ a.cap > MinCap
    THEN LET cap0 == a.cap
             c == ShrinkCap(a.cap, a.len)
             d == Wrap(c - cap0)
             a1 == [a EXCEPT !.cap = c]
             a2 == IF a.off >= c
                   THEN \* the whole content is outside, but in one piece
                        [Copy(a1, 0, a.off, a.len) EXCEPT !.off = 0]
                   ELSE IF Wrap(a.off + a.len) >= cap0
                   THEN \* it wrapped around already: adjust to new boundary
                        [Move(a1, Wrap(a.off + d), a.off, d)
                            EXCEPT !.off = Wrap(a.off + d)]
                   ELSE IF Wrap(a.off + a.len) > c
                   THEN \* it overflows the new cap: make it wrap
                        Copy(a1, 0, c, Wrap(a.off + a.len - c))
                   ELSE a1
         IN  [a2 EXCEPT !.els = IF fail THEN <<>> ELSE Realloc(a2.els, c)]
    ELSE a

dcarr_unshift(a, v, fail) ==
    LET a1 == dcarr_reserve(a, 1, fail)
        o  == dcarr_idx(a1, Wrap(a1.cap - 1))
        a2 == Store([a1 EXCEPT !.off = o], o, v)
    IN  IF a1.oom THEN a1 ELSE [a2 EXCEPT !.len = Wrap(a1.len + 1)]

dcarr_shift(a, fail) ==
    LET a1 == Load(a, a.off)
        a2 == [a1 EXCEPT !.off = dcarr_idx(a, 1), !.len = Wrap(a.len - 1)]
    IN  dcarr_reduce_size(a2, fail)

dcarr_push(a, v, fail) ==
    LET a1 == dcarr_reserve(a, 1, fail)
        a2 == Store(a1, dcarr_idx(a1, a1.len), v)
    IN  IF a1.oom THEN a1 ELSE [a2 EXCEPT !.len = Wrap(a1.len + 1)]

\* A variant of dcarr_pop: reading the slot before it lowers the length
dcarr_pop_late(a, fail) ==
    LET a1 == Load(a, dcarr_idx(a, a.len))
        a2 == [a1 EXCEPT !.len = Wrap(a.len - 1)]
        a3 == dcarr_reduce_size(a2, fail)
    IN a3

dcarr_pop(a, fail) ==
    LET a1 == [a EXCEPT !.len = Wrap(a.len - 1)]
        a2 == Load(a1, dcarr_idx(a1, a1.len))
    IN  dcarr_reduce_size(a2, fail)

\* A variant of dcarr_insert: the end of the list is moved forward without
\* its last element
dcarr_insert_short(a, i, v, fail) ==
    LET a1 == dcarr_reserve(a, 1, fail)
        p  == dcarr_idx(a1, i)
        a2 == IF i < a1.len
              THEN IF p > a1.off /\ a1.off # 0
                   THEN [Move(a1, a1.off - 1, a1.off, p - a1.off)
                            EXCEPT !.off = a1.off - 1]
                   ELSE Move(a1, p + 1, p, a1.len - i - 1)
              ELSE a1
        a3 == [a2 EXCEPT !.len = Wrap(a2.len + 1)]
    IN  IF a1.oom THEN a1 ELSE Store(a3, dcarr_idx(a3, i), v)

dcarr_insert(a, i, v, fail) ==
    LET a1 == dcarr_reserve(a, 1, fail)
        p  == dcarr_idx(a1, i)
        a2 == IF i < a1.len
              THEN IF p > a1.off /\ a1.off # 0
                   THEN \* move the beginning of the list backwards
                        [Move(a1, a1.off - 1, a1.off, p - a1.off)
                            EXCEPT !.off = a1.off - 1]
                   ELSE \* move the end of the list forward
                        Move(a1, p + 1, p, a1.len - i)
              ELSE a1
        a3 == [a2 EXCEPT !.len = Wrap(a2.len + 1)]
    IN  IF a1.oom THEN a1 ELSE Store(a3, dcarr_idx(a3, i), v)

\* dcarr_resize(a, eltype, newsize).  As written the macro opens a brace after
\* its if that it never closes, so no use of it compiles; it is read here as
\* its comment and indentation say: only dcarr_reserve is under the if.
dcarr_resize(a, newsize, failGrow, failShrink) ==
    LET a1 == IF newsize > a.len
              THEN dcarr_reserve(a, Wrap(newsize - a.len), failGrow)
              ELSE a
    IN  IF a1.oom THEN a1
        ELSE dcarr_reduce_size([a1 EXCEPT !.len = newsize], failShrink)

\* int_cmp of dcarr-demo.c: the difference of two ints.  The elements of the
\* model are small: no difference of two of them overflows an int.
int_cmp(x, y) == x - y

\* qsort(&els[p], n, sizeof(eltype), int_cmp): the n slots from p, ascending
QSort(e, p, n) ==
    LET s == [k \in 1 .. n |-> Rd(e, p + k - 1)]
        rank(j) == Cardinality({k \in 1 .. n :
                       int_cmp(s[k], s[j]) < 0 \/ (int_cmp(s[k], s[j]) = 0 /\ k < j)})
        t == [r \in 1 .. n |-> s[CHOOSE j \in 1 .. n : rank(j) = r - 1]]
    IN  [q \in 1 .. Len(e) |-> IF q - 1 >= p /\ q - 1 < p + n THEN t[q - p] ELSE e[q]]

\* A variant of dcarr_sort: the parts of a wrapped deque are not moved
\* together before qsort
dcarr_sort_apart(a) ==
    LET a1 == IF Wrap(a.off + a.len) > a.cap THEN [a EXCEPT !.off = 0] ELSE a
        a2 == [a1 EXCEPT !.els = QSort(a1.els, a1.off, a1.len)]
    IN  [a2 EXCEPT !.ub = a1.ub \/ Outside(a1.els, a1.off, a1.len)]

dcarr_sort(a) ==
    LET a1 == IF Wrap(a.off + a.len) > a.cap
              THEN \* it wraps around: just move the parts together
                   [Move(a, Wrap(a.off + a.len - a.cap), a.off, Wrap(a.cap - a.off))
                       EXCEPT !.off = 0]
              ELSE a
    IN  [a1 EXCEPT !.els = QSort(a1.els, a1.off, a1.len),
                   !.ub = a1.ub \/ Outside(a1.els, a1.off, a1.len)]

\* dcarr_init(a)
dcarr_init == Arr(<<>>, 0, 0, 0, 0)

\* A variant of dcarr_destroy: the struct is reset as dcarr_init sets it
dcarr_destroy_reset(a) == dcarr_init

\* dcarr_destroy(a): dcarr_free(a.els), and nothing else; the struct is as it
\* was, its pointer dangling
dcarr_destroy(a) == a

\* ------------------------------------------------------ state machine
Cur == Arr(els, cap, off, len, 0)

Wrapped(a) == a.off + a.len > a.cap

\* The buffers a.els can turn out to be when the unwritten slots among the
\* live ones are read and compared: each holds some value
Readings(a) ==
    LET L == {dcarr_idx(a, k) : k \in 0 .. a.len - 1}
        U == {p \in L : p < Len(a.els) /\ a.els[p + 1] = Indet}
    IN  IF U = {} THEN {a.els}
        ELSE {[q \in 1 .. Len(a.els) |-> IF q - 1 \in U THEN g[q - 1] ELSE a.els[q]] :
                 g \in [U -> Garbage]}

Running == status \in {"ok", "tainted"}

\* dcarr_reserve(a, n) calls dcarr_realloc; dcarr_reduce_size(a) does
Grows(a, n) == Wrap(a.len + n) > a.cap
Shrinks(a) == Wrap(a.len * 4) <= a.cap /\ a.cap > MinCap

\* What is kept of a call: op, its arguments i and v, the element ret it
\* assigned to the caller's variable, the capacity before it, w (see at the
\* actions) and exp, what the reference gives for ret
Rec(op, i, v, w, exp) ==
    [op |-> op, i |-> i, v |-> v, w |-> w, exp |-> exp, ret |-> 0, cap |-> cap]

\* One call of a macro that took the deque from Cur to r.  An access outside
\* the block is undefined: the process may die there, or go on with whatever
\* the access did inside the block.  An access through NULL kills it.
Step(r, rec) ==
    /\ \/ /\ r.oom
          /\ status' = "exit"
          /\ els' = r.els /\ cap' = r.cap /\ off' = r.off /\ len' = r.len
          /\ last' = rec
       \/ /\ ~r.oom /\ r.ub
          /\ status' = "crashed"
          /\ last' = rec
          /\ UNCHANGED <<els, cap, off, len>>
       \/ /\ ~r.oom
          /\ r.ub => Len(els) > 0
          /\ status' = IF r.ub THEN "tainted" ELSE status
          /\ els' = r.els
          /\ cap' = r.cap /\ off' = r.off /\ len' = r.len
          /\ last' = [rec EXCEPT !.ret = r.value]

InsertAt(s, i, v) == SubSeq(s, 1, i) \o <<v>> \o SubSeq(s, i + 1, Len(s))

Front(s) == SubSeq(s, 1, Len(s) - 1)

\* The values the caller stores at the two ends
BackValue == Numbered(front + len)
FrontValue == Numbered(front - 1)

Init ==
    /\ els = dcarr_init.els /\ cap = dcarr_init.cap
    /\ off = dcarr_init.off /\ len = dcarr_init.len
    /\ status = "ok"
    /\ ref = <<>>
    /\ last = Rec("init", 0, 0, FALSE, 0)
    /\ front = 0
    /\ mid = 0
    /\ pc = "fill" /\ main_i = 0 /\ out = <<>>

\* A run that has gone through undefined behaviour is followed no further
\* than the pop or shift that takes back the element just put in.
\* fail: the call of dcarr_realloc returns NULL, if there is one.
\* last.v: the value inserted; last.i: the length before the call.
PushUpTo(n) ==
    \E fail \in BOOLEAN :
        LET r == dcarr_push(Cur, BackValue, fail) IN
        /\ status = "ok" /\ mid = 0
        /\ len < n
        /\ fail => Grows(Cur, 1)
        /\ Step(r, Rec("push", len, BackValue, FALSE, 0))
        /\ ref' = IF Running' THEN Append(ref, BackValue) ELSE ref
        /\ UNCHANGED <<front, mid>>
        /\ UNCHANGED demo

Push == PushUpTo(MaxLen)

Unshift ==
    \E fail \in BOOLEAN :
        LET r == dcarr_unshift(Cur, FrontValue, fail) IN
        /\ status = "ok" /\ mid = 0
        /\ len < MaxLen
        /\ front > -MaxShift
        /\ fail => Grows(Cur, 1)
        /\ Step(r, Rec("unshift", len, FrontValue, FALSE, 0))
        /\ ref' = IF Running' THEN <<FrontValue>> \o ref ELSE ref
        /\ front' = IF Running' THEN front - 1 ELSE front
        /\ UNCHANGED mid
        /\ UNCHANGED demo

\* last.exp: the element the reference sequence gives up.  last.w: the call
\* undoes the one before it (a pop after a push, a shift after an unshift);
\* last.v is then the value that one inserted, last.i the length before it.
Pop ==
    \E fail \in BOOLEAN :
        LET r == dcarr_pop(Cur, fail)
            w == last.op = "push"
        IN
        /\ status = "ok" \/ (status = "tainted" /\ w)
        /\ mid = 0
        /\ len > 0
        /\ fail => Shrinks([Cur EXCEPT !.len = len - 1])
        /\ Step(r, Rec("pop", IF w THEN last.i ELSE 0, IF w THEN last.v ELSE 0, w,
                       IF ref = <<>> THEN 0 ELSE ref[Len(ref)]))
        /\ ref' = IF Running' THEN Front(ref) ELSE ref
        /\ UNCHANGED <<front, mid>>
        /\ UNCHANGED demo

ShiftUpTo(n) ==
    \E fail \in BOOLEAN :
        LET r == dcarr_shift(Cur, fail)
            w == last.op = "unshift"
        IN
        /\ status = "ok" \/ (status = "tainted" /\ w)
        /\ mid = 0
        /\ len > 0
        /\ front < n
        /\ fail => Shrinks([Cur EXCEPT !.len = len - 1])
        /\ Step(r, Rec("shift", IF w THEN last.i ELSE 0, IF w THEN last.v ELSE 0, w,
                       IF ref = <<>> THEN 0 ELSE ref[1]))
        /\ ref' = IF Running' THEN Tail(ref) ELSE ref
        /\ front' = IF Running' THEN front + 1 ELSE front
        /\ UNCHANGED mid
        /\ UNCHANGED demo

Shift == ShiftUpTo(MaxShift)

\* last.i: the index, last.v: the value inserted.
Insert ==
    \E i \in 0 .. len, v \in {LowMark, HighMark}, fail \in BOOLEAN :
        LET r == dcarr_insert(Cur, i, v, fail) IN
        /\ status = "ok"
        /\ len < MaxLen
        /\ mid < MaxMid
        /\ fail => Grows(Cur, 1)
        /\ Step(r, Rec("insert", i, v, FALSE, 0))
        /\ ref' = IF Running' THEN InsertAt(ref, i, v) ELSE ref
        /\ mid' = mid + 1
        /\ UNCHANGED front
        /\ UNCHANGED demo

\* last.i: the new length.  The elements a growing resize adds are what the
\* memory holds.  A realloc that fails in dcarr_reserve ends the process, so
\* the two reallocs of one call fail in three ways, not four.
Resize ==
    \E n \in 0 .. MaxLen, fails \in {<<FALSE, FALSE>>, <<TRUE, FALSE>>, <<FALSE, TRUE>>} :
        LET r == dcarr_resize(Cur, n, fails[1], fails[2]) IN
        /\ status = "ok"
        /\ n <= len + MaxGrow
        /\ mid < MaxMid
        /\ fails[1] => n > len /\ Grows(Cur, n - len)
        /\ fails[2] => Shrinks([(IF n > len THEN dcarr_reserve(Cur, n - len, FALSE) ELSE Cur)
                                    EXCEPT !.len = n])
        /\ Step(r, Rec("resize", n, 0, FALSE, 0))
        /\ ref' = IF ~Running' THEN ref
                  ELSE IF n <= Len(ref) THEN SubSeq(ref, 1, n)
                  ELSE ref \o SubSeq(Content(r), Len(ref) + 1, n)
        /\ mid' = mid + 1
        /\ UNCHANGED front
        /\ UNCHANGED demo

\* last.w: the content wrapped around the end of the buffer before the call.
\* A deque that came back from undefined behaviour is sorted too.
\* The reference holds, for an element resize added, what the buffer holds.
Sort ==
    \E e \in Readings(Cur) :
        LET a == [Cur EXCEPT !.els = e]
            r == dcarr_sort(a)
            s == [k \in 1 .. Len(ref) |->
                     IF ref[k] = Indet /\ k <= len THEN dcarr_elem(a, k - 1) ELSE ref[k]]
        IN
        /\ Running
        /\ mid < MaxMid
        /\ Step(r, Rec("sort", 0, 0, Wrapped(Cur), 0))
        /\ ref' = IF Running' THEN QSort(s, 0, Len(s)) ELSE ref
        /\ mid' = mid + 1
        /\ UNCHANGED front
        /\ UNCHANGED demo

\* status "destroyed": the block has been freed
Destroy ==
    LET r == dcarr_destroy(Cur) IN
    /\ status = "ok"
    /\ status' = "destroyed"
    /\ els' = r.els /\ cap' = r.cap /\ off' = r.off /\ len' = r.len
    /\ last' = Rec("destroy", 0, 0, FALSE, 0)
    /\ UNCHANGED <<ref, front, mid>>
    /\ UNCHANGED demo

\* dcarr_init(a) on a destroyed deque, as the comment of dcarr_destroy asks
Reinit ==
    /\ status = "destroyed"
    /\ els' = dcarr_init.els /\ cap' = dcarr_init.cap
    /\ off' = dcarr_init.off /\ len' = dcarr_init.len
    /\ status' = "ok"
    /\ ref' = <<>>
    /\ last' = Rec("init", 0, 0, FALSE, 0)
    /\ front' = 0
    /\ mid' = 0
    /\ UNCHANGED demo

Next ==
    \/ Push
    \/ Unshift
    \/ Pop
    \/ Shift
    \/ Insert
    \/ Resize
    \/ Sort
    \/ Destroy
    \/ Reinit

Spec == Init /\ [][Next]_vars

\* The deque driven through its two ends only
NextEnds ==
    \/ Push
    \/ Unshift
    \/ Pop
    \/ Shift

SpecEnds == Init /\ [][NextEnds]_vars

\* A caller that pushes until the length is one that overflows when it is
\* taken four times, and pops
WidePush == PushUpTo(WideLen)

NextWide ==
    \/ WidePush
    \/ Pop

SpecWide == Init /\ [][NextWide]_vars

\* A caller that, when it is done with the two ends, calls dcarr_reserve.
\* last.i: the number of slots asked for; last.w: the content wrapped around
\* the end of the buffer before the call.
Reserve ==
    \E n \in 1 .. MaxReserve, fail \in BOOLEAN :
        LET r == dcarr_reserve(Cur, n, fail) IN
        /\ status = "ok"
        /\ mid < MaxMid
        /\ fail => Grows(Cur, n)
        /\ Step(r, Rec("reserve", n, 0, Wrapped(Cur), 0))
        /\ mid' = mid + 1
        /\ UNCHANGED <<ref, front>>
        /\ UNCHANGED demo

NextReserve ==
    \/ Push
    \/ Unshift
    \/ Pop
    \/ Shift
    \/ Reserve

SpecReserve == Init /\ [][NextReserve]_vars

\* A caller that fills a long deque at the back, removes at the two ends and
\* truncates.
NextShrink ==
    \/ WidePush
    \/ Pop
    \/ Shift
    \/ Resize

SpecShrink == Init /\ [][NextShrink]_vars

\* A caller that fills half of what an unsigned int counts and removes at
\* the front: the lengths at which len << 2 is beyond an unsigned int
LongPush == PushUpTo(LongLen)
LongShift == ShiftUpTo(LongLen \div 4)

NextLong ==
    \/ LongPush
    \/ LongShift

SpecLong == Init /\ [][NextLong]_vars

\* ------------------------------------------------------------------------
\* main of dcarr-demo.c, a statement at a time.  Its run goes on after a call
\* that went through undefined behaviour and came back.

DemoCount == 15
DemoIndex == 9
DemoValue == 100

\* The position after a call: p, unless the call ended the process
After(p) == IF Running' THEN p ELSE pc

\* for (i = 0; i < 15; i++): the test
DemoFillTest ==
    /\ pc = "fill" /\ Running
    /\ pc' = IF main_i < DemoCount THEN "fill_body" ELSE "insert"
    /\ UNCHANGED <<els, cap, off, len, status, ref, last, front, mid, main_i, out>>

\* if (i % 2) dcarr_push(arr, int, i); else dcarr_unshift(arr, int, i); i++
DemoFillBody ==
    \E fail \in BOOLEAN :
        LET r == IF main_i % 2 # 0 THEN dcarr_push(Cur, main_i, fail)
                 ELSE dcarr_unshift(Cur, main_i, fail)
        IN
        /\ pc = "fill_body" /\ Running
        /\ fail => Grows(Cur, 1)
        /\ Step(r, Rec(IF main_i % 2 # 0 THEN "push" ELSE "unshift", len, main_i, FALSE, 0))
        /\ ref' = IF ~Running' THEN ref
                  ELSE IF main_i % 2 # 0 THEN Append(ref, main_i) ELSE <<main_i>> \o ref
        /\ pc' = After("fill")
        /\ main_i' = IF Running' THEN main_i + 1 ELSE main_i
        /\ UNCHANGED <<front, mid, out>>

\* dcarr_insert(arr, 9, int, 100); dumparray(arr) begins
DemoInsert ==
    \E fail \in BOOLEAN :
        LET r == dcarr_insert(Cur, DemoIndex, DemoValue, fail) IN
        /\ pc = "insert" /\ Running
        /\ fail => Grows(Cur, 1)
        /\ Step(r, Rec("insert", DemoIndex, DemoValue, FALSE, 0))
        /\ ref' = IF Running' THEN InsertAt(ref, DemoIndex, DemoValue) ELSE ref
        /\ pc' = After("dump_inserted")
        /\ out' = <<>>
        /\ UNCHANGED <<front, mid, main_i>>

Dumping == pc \in {"dump_inserted", "dump_sorted", "dump_drain"}

\* dumparray: printf(" %d", dcarr_elem(arr, i)), for its own i below the length
DemoDump ==
    LET r == Load(Cur, dcarr_idx(Cur, Len(out))) IN
    /\ Dumping /\ Running
    /\ Len(out) < dcarr_len(Cur)
    /\ Step([r EXCEPT !.value = 0], Rec("elem", Len(out), 0, FALSE, 0))
    /\ out' = IF Running' THEN Append(out, r.value) ELSE out
    /\ UNCHANGED <<ref, front, mid, pc, main_i>>

\* dumparray returns
DemoDumpEnd ==
    /\ Dumping /\ Running
    /\ Len(out) >= dcarr_len(Cur)
    /\ pc' = IF pc = "dump_inserted" THEN "sort" ELSE "drain"
    /\ UNCHANGED <<els, cap, off, len, status, ref, last, front, mid, main_i, out>>

\* dcarr_sort(arr, int, int_cmp); dumparray(arr) begins
DemoSort ==
    \E e \in Readings(Cur) :
        LET a == [Cur EXCEPT !.els = e]
            r == dcarr_sort(a)
            s == [k \in 1 .. Len(ref) |->
                     IF ref[k] = Indet /\ k <= len THEN dcarr_elem(a, k - 1) ELSE ref[k]]
        IN
        /\ pc = "sort" /\ Running
        /\ Step(r, Rec("sort", 0, 0, Wrapped(Cur), 0))
        /\ ref' = IF Running' THEN QSort(s, 0, Len(s)) ELSE ref
        /\ pc' = After("dump_sorted")
        /\ out' = <<>>
        /\ UNCHANGED <<front, mid, main_i>>

\* while (dcarr_len(arr) > 0): if (dcarr_len(arr) % 3) dcarr_shift(arr, int, i);
\* else dcarr_pop(arr, int, i);
DemoDrain ==
    \E fail \in BOOLEAN :
        LET r == IF dcarr_len(Cur) % 3 # 0 THEN dcarr_shift(Cur, fail)
                 ELSE dcarr_pop(Cur, fail)
            op == IF dcarr_len(Cur) % 3 # 0 THEN "shift" ELSE "pop"
        IN
        /\ pc = "drain" /\ Running
        /\ dcarr_len(Cur) > 0
        /\ fail => Shrinks([Cur EXCEPT !.len = len - 1])
        /\ Step(r, Rec(op, 0, 0, FALSE,
                       IF ref = <<>> THEN 0
                       ELSE IF op = "shift" THEN ref[1] ELSE ref[Len(ref)]))
        /\ ref' = IF ~Running' \/ ref = <<>> THEN ref
                  ELSE IF op = "shift" THEN Tail(ref) ELSE Front(ref)
        /\ pc' = After("drain_check")
        /\ main_i' = IF Running' THEN r.value ELSE main_i
        /\ UNCHANGED <<front, mid, out>>

\* if (dcarr_len(arr) % 4 == 0) dumparray(arr);
DemoDrainCheck ==
    /\ pc = "drain_check" /\ Running
    /\ pc' = IF dcarr_len(Cur) % 4 = 0 THEN "dump_drain" ELSE "drain"
    /\ out' = IF dcarr_len(Cur) % 4 = 0 THEN <<>> ELSE out
    /\ UNCHANGED <<els, cap, off, len, status, ref, last, front, mid, main_i>>

\* dcarr_destroy(arr); return 0
DemoDestroy ==
    LET r == dcarr_destroy(Cur) IN
    /\ pc = "drain" /\ Running
    /\ dcarr_len(Cur) = 0
    /\ status' = "destroyed"
    /\ els' = r.els /\ cap' = r.cap /\ off' = r.off /\ len' = r.len
    /\ last' = Rec("destroy", 0, 0, FALSE, 0)
    /\ pc' = "done"
    /\ UNCHANGED <<ref, front, mid, main_i, out>>

DemoNext ==
    \/ DemoFillTest
    \/ DemoFillBody
    \/ DemoInsert
    \/ DemoDump
    \/ DemoDumpEnd
    \/ DemoSort
    \/ DemoDrain
    \/ DemoDrainCheck
    \/ DemoDestroy

DemoSpec == Init /\ [][DemoNext]_vars

\* ------------------------------------------------------------------------
\* Properties of the operations at the two ends

\* No realloc has returned NULL: the block has cap slots
Allocated == Len(els) = cap

\* What the last operation, a removal, took away from the reference deque
\* is what it returned
ReturnedExpected == last.op \in {"pop", "shift"} => last.ret = last.exp

\* C1: under any sequence of push, unshift, pop and shift the deque holds the
\* elements of the reference sequence in their order, its length is the
\* reference's length, and a removal returns what the reference gave up.
\* (Stated for the runs in which every allocation succeeds.)
C1_EndsRefineReference ==
    (Running /\ Allocated)
            => /\ dcarr_len(Cur) = Len(ref)
               /\ Content(Cur) = ref
               /\ ReturnedExpected

\* C3: a pop or a shift that lowers the capacity leaves the elements that
\* remain, in their order.  (Stated for the shrinks whose realloc succeeds.)
C3_ShrinkKeepsContent ==
    [][(Running' /\ Allocated' /\ last'.op \in {"pop", "shift"} /\ cap' < cap)
          => Content(Cur)' = IF last'.op = "pop" THEN Front(Content(Cur))
                             ELSE Tail(Content(Cur))]_vars

\* C7: a push followed at once by a pop, and an unshift followed at once by
\* a shift, return the value that was put in and leave the length as it was
\* before the pair.  (last.w: the removal follows its insertion at the same
\* end; last.v and last.i are that insertion's value and the length before.)
C7_RoundTrip ==
    (Running /\ last.op \in {"pop", "shift"} /\ last.w)
        => /\ last.ret = last.v
           /\ dcarr_len(Cur) = last.i

\* A push onto a wrapped deque that is popped again, and an unshift at a
\* full capacity, which grows it, that is shifted again
C7_RoundTripHappens ==
    /\ status = "ok"
    /\ last.w
    /\ \/ last.op = "pop" /\ Wrapped(Cur) /\ len >= 2
       \/ last.op = "shift" /\ cap > MinCap /\ len = MinCap

\* ------------------------------------------------------------------------
\* Properties of the operations in the middle and of the capacity

\* C2: dcarr_insert(a, i, v) leaves the elements before index i where they
\* were, puts v at index i and moves the elements from index i on up by one,
\* for every i from 0 to the length, index 0 of a deque with a non-zero
\* offset and a wrapped deque included.  (Stated for the inserts whose
\* allocation succeeds.)
C2_InsertPlacesValue ==
    [][(Running' /\ Allocated' /\ last'.op = "insert")
          => /\ dcarr_len(Cur)' = dcarr_len(Cur) + 1
             /\ Content(Cur)' = InsertAt(Content(Cur), last'.i, last'.v)]_vars

IsPowerOfTwo(c) == c > 0 /\ BitAnd(c, c - 1) = 0

\* C4: after every operation the capacity is 0 or a power of two and the
\* length is at most the capacity.
C4_CapacityBoundsLength ==
    Running => /\ cap = 0 \/ IsPowerOfTwo(cap)
               /\ len <= cap

\* How many elements of the sequence s are x
Count(s, x) == Cardinality({k \in 1 .. Len(s) : s[k] = x})

Ascending(s) == \A k \in 1 .. Len(s) - 1 : int_cmp(s[k], s[k + 1]) <= 0

\* C5: dcarr_sort leaves the length as it was and the elements in ascending
\* order of the comparison, the same elements as before, whether or not the
\* deque was wrapped.  (An element that was never written has no value to
\* compare before the sort: the elements that have one are all kept.)
C5_SortAscendingPermutation ==
    [][(Running' /\ last'.op = "sort")
          => LET before == Content(Cur)
                 after  == Content(Cur)'
             IN /\ dcarr_len(Cur)' = dcarr_len(Cur)
                /\ Ascending(after)
                /\ \A k \in 1 .. Len(after) : after[k] # Indet
                /\ \A k \in 1 .. Len(before) :
                       before[k] # Indet
                           => Count(after, before[k]) >= Count(before, before[k])]_vars

\* A wrapped deque, of elements not in ascending order, has been sorted
C5_WrappedSorted ==
    /\ status = "ok"
    /\ last.op = "sort" /\ last.w
    /\ len >= 4
    /\ off = 0

\* C6: when realloc returns NULL, in dcarr_reserve and in dcarr_reduce_size,
\* dcarr_oom runs: the program exits and never goes on with a NULL buffer.
C6_OomOnEveryFailure ==
    (cap # 0 /\ els = <<>>) => status = "exit"

\* C8: after dcarr_destroy the capacity, the offset and the length are 0.
C8_DestroyResets ==
    status = "destroyed" => cap = 0 /\ off = 0 /\ len = 0

\* C8, as the code has it: dcarr_destroy frees the block and leaves cap, off
\* and len as they were; they are 0 after dcarr_init, and els is NULL.
C8_DestroyOnlyFrees ==
    [][/\ (status = "ok" /\ status' = "destroyed")
            => cap' = cap /\ off' = off /\ len' = len
       /\ last'.op = "init"
            => cap' = 0 /\ off' = 0 /\ len' = 0 /\ els' = <<>>]_vars

\* A deque with elements has been destroyed
C8_DestroyedNonEmpty ==
    status = "destroyed" /\ cap >= MinCap /\ len > 0

\* C10: once the capacity is not 0 no operation brings it below 8; it is 0
\* again only for a deque that has been destroyed and is initialised anew.
C10_CapacityFloor ==
    [][cap # 0 => \/ cap' >= MinCap
                  \/ status = "destroyed" /\ last'.op = "init" /\ cap' = 0]_vars

\* A pop or a shift has brought a capacity above 8 down to 8
C10_ShrunkToFloor ==
    /\ status = "ok" /\ Allocated
    /\ last.op \in {"pop", "shift"}
    /\ last.cap > MinCap /\ cap = MinCap

\* ------------------------------------------------------------------------
\* The demonstration program

\* What main has put into the deque before its insert, in the deque's order
DemoFilled == <<14, 12, 10, 8, 6, 4, 2, 0, 1, 3, 5, 7, 9, 11, 13>>

\* C9: after the fifteen pushes and unshifts of the demonstration and
\* dcarr_insert(arr, 9, int, 100) the sequence ends 0, 1, 3, 5, 7, 9, 100, 11, 13.
C9_DemoEndsAsStated ==
    (pc = "sort" /\ Running)
        => SubSeq(out, Len(out) - 8, Len(out)) = <<0, 1, 3, 5, 7, 9, 100, 11, 13>>

\* C9, as the code has it: the fifteen pushes and unshifts leave 14, 12, ..., 2,
\* 0, 1, 3, ..., 13, and the insert puts 100 at index 9, between the 1 and the
\* 3, in a run that survives the write past the block that the growth at
\* i = 8 makes: dumparray prints 14 12 10 8 6 4 2 0 1 100 3 5 7 9 11 13.
C9_DemoInsertsAtNine ==
    /\ (pc = "insert" /\ Running) => Content(Cur) = DemoFilled
    /\ (pc = "sort" /\ Running)
           => /\ out = InsertAt(DemoFilled, DemoIndex, DemoValue)
              /\ out = Content(Cur)
              /\ out[DemoIndex + 1] = DemoValue

\* dumparray has printed the deque after the insert
C9_DemoInserted ==
    /\ pc = "sort" /\ Running
    /\ Len(out) = DemoCount + 1
    /\ DemoValue \in {out[k] : k \in 1 .. Len(out)}

\* ------------------------------------------------------------------------
\* Properties of dcarr_resize and dcarr_reserve

\* The first n elements of the sequence s
Prefix(s, n) == SubSeq(s, 1, IF n < Len(s) THEN n ELSE Len(s))

\* C11: dcarr_resize(a, new_len) makes the length new_len and leaves the
\* elements at the indices below the smaller of the old and the new length
\* as they were, when it grows and when it truncates, wrapped deques
\* included.  (Stated for the calls whose allocations succeed.)
C11_ResizeKeepsPrefix ==
    [][(Running' /\ Allocated' /\ last'.op = "resize")
          => /\ dcarr_len(Cur)' = last'.i
             /\ Prefix(Content(Cur)', dcarr_len(Cur))
                    = Prefix(Content(Cur), last'.i)]_vars

\* C12: in every run that goes on after it, dcarr_reserve(a, n) leaves the
\* content and the length as they were; when the content wrapped around the
\* end of the old buffer and the buffer grew, off is advanced by exactly the
\* difference of the new and the old capacity, and otherwise off is
\* unchanged; for one doubling and for several.
C12_ReserveKeepsContent ==
    [][(Running' /\ last'.op = "reserve")
          => /\ Content(Cur)' = Content(Cur)
             /\ dcarr_len(Cur)' = dcarr_len(Cur)
             /\ off' = IF Wrapped(Cur) /\ cap' > cap
                       THEN off + (cap' - cap)
                       ELSE off]_vars

\* dcarr_reserve has moved a wrapped content over several doublings
C12_WrappedGrownTwice ==
    /\ Running
    /\ last.op = "reserve"
    /\ last.w
    /\ cap >= 4 * last.cap
    /\ len >= 2

\* The capacities dcarr_reserve can reach from the capacity c
RECURSIVE Chain(_, _)
Chain(c, k) ==
    LET c1 == IF c >= MinCap THEN c * 2 ELSE MinCap
    IN  IF k = 0 THEN {} ELSE {c1} \cup Chain(c1, k - 1)

\* C13: after dcarr_reserve(a, n), when len + n <= cap held nothing has
\* changed; otherwise the new capacity is the smallest one of the chain
\* (8 from a capacity below 8, else the capacity doubled repeatedly) that
\* holds len + n; the first insertion into an unallocated deque gives
\* capacity 8.  (A call that stops inside its block move has assigned the
\* new capacity to no state that can be observed.)
C13_ReserveCapacity ==
    [][/\ (last'.op = "reserve" /\ len + last'.i <= cap)
            => (cap' = cap /\ off' = off /\ len' = len /\ els' = els)
       /\ (last'.op = "reserve" /\ len + last'.i > cap /\ status' # "crashed")
            => /\ cap' \in Chain(cap, Width)
               /\ cap' >= len + last'.i
               /\ \A c \in Chain(cap, Width) : c >= len + last'.i => cap' <= c
       /\ (last'.op \in {"push", "unshift"} /\ cap = 0)
            => cap' = MinCap]_vars

\* dcarr_reserve has grown the buffer by more than one doubling
C13_GrownTwice ==
    /\ last.op = "reserve"
    /\ cap >= 4 * last.cap
    /\ last.cap >= MinCap
    /\ cap \div 2 < len + last.i

\* ------------------------------------------------------------------------
\* Properties of dcarr_reduce_size

\* The capacities the halving loop of dcarr_reduce_size can reach from c
RECURSIVE Halvings(_)
Halvings(c) == IF c <= 1 THEN {} ELSE {c \div 2} \cup Halvings(c \div 2)

\* The state a removal may leave: capacity c with length l
Settled(c, l) == c <= MinCap \/ l * 4 > c

\* A call that removes elements: dcarr_pop, dcarr_shift, or a dcarr_resize
\* to at most the length
Removal == last'.op \in {"pop", "shift"} \/ (last'.op = "resize" /\ last'.i <= len)

\* C14: after every dcarr_pop, dcarr_shift or truncating dcarr_resize,
\* capacity <= 8 or length * 4 > capacity; and when the removal leaves
\* length * 4 <= capacity with capacity > 8, the resulting capacity is
\* strictly smaller than before and is the largest halving of the old
\* capacity of which that holds.
C14_ShrinkPostcondition ==
    [][(Removal /\ status' # "crashed")
          => /\ Settled(cap', len')
             /\ (len' * 4 <= cap /\ cap > MinCap)
                   => /\ cap' < cap
                      /\ cap' \in Halvings(cap)
                      /\ \A c \in Halvings(cap) : Settled(c, len') => c <= cap']_vars

\* A truncation has halved the capacity more than once and has stopped
\* above the smallest capacity
C14_HalvedTwiceOnly ==
    /\ status = "ok"
    /\ last.op = "resize"
    /\ last.cap >= 4 * cap
    /\ cap > MinCap
    /\ len * 4 > cap

\* The deque on which the removal of this step runs dcarr_reduce_size
Entering ==
    IF last'.op = "pop" THEN [Cur EXCEPT !.len = Wrap(len - 1)]
    ELSE IF last'.op = "shift"
    THEN [Cur EXCEPT !.off = dcarr_idx(Cur, 1), !.len = Wrap(len - 1)]
    ELSE [Cur EXCEPT !.len = last'.i]

\* The relocation case dcarr_reduce_size(a) takes: 0 when it does not
\* shrink, 1 .. 3 for the three cases in the order of the source, 4 when it
\* shrinks and moves nothing
ShrinkCase(a) ==
    IF ~Shrinks(a) THEN 0
    ELSE LET c == ShrinkCap(a.cap, a.len)
         IN  IF a.off >= c THEN 1
             ELSE IF Wrap(a.off + a.len) >= a.cap THEN 2
             ELSE IF Wrap(a.off + a.len) > c THEN 3
             ELSE 4

\* C15: whenever dcarr_reduce_size takes its first relocation case (off is
\* at or beyond the new capacity), the content is in one piece: off + len
\* is at most the old capacity.
C15_OutsideInOnePiece ==
    [][(Removal /\ ShrinkCase(Entering) = 1) => ~Wrapped(Entering)]_vars

\* ------------------------------------------------------------------------
\* Properties of dcarr_insert

\* The deque after the dcarr_reserve that dcarr_insert starts with
Reserved == dcarr_reserve(Cur, 1, FALSE)

\* dcarr_insert(a, i, v) moves the beginning of the list backwards
MovesFront(i) == dcarr_idx(Reserved, i) > Reserved.off /\ Reserved.off # 0

\* C16: for dcarr_insert(a, i, v) with i < len, off is decremented by
\* exactly 1 if and only if the physical slot of i is greater than off and
\* off is not 0 (slot and off taken once the buffer has room for one more);
\* in every other case off is unchanged and the elements from index i on
\* are one index further back; for i = len off is unchanged and no
\* element has moved.
C16_InsertShiftsOneSide ==
    [][(Running' /\ Allocated' /\ last'.op = "insert")
          => LET i == last'.i
                 before == Content(Reserved)
                 after == Content(Cur)'
             IN  /\ (i < len /\ MovesFront(i)) => off' = Reserved.off - 1
                 /\ (i < len /\ ~MovesFront(i))
                       => /\ off' = Reserved.off
                          /\ \A k \in i + 1 .. len : after[k + 1] = before[k]
                 /\ i = len
                       => /\ off' = Reserved.off
                          /\ \A k \in 1 .. len : after[k] = before[k]]_vars

\* ------------------------------------------------------------------------
\* Properties of the offset and of the relocation cases

\* C17: in every reachable state with capacity > 0, 0 <= off < cap.
C17_OffsetInRange == cap > 0 => (0 <= off /\ off < cap)

\* C20: the second relocation case of dcarr_reduce_size (off is below the
\* new capacity and off + len is at least the old capacity) is taken in no
\* state that can be reached from dcarr_init.
C20_SecondCaseNeverTaken ==
    [][Removal => ShrinkCase(Entering) # 2]_vars

\* C18: in every operation reachable from dcarr_init with its preconditions
\* respected, every slot an element access, memmove, memcpy or memset reads
\* or writes lies in the buffer allocated at that moment.  (An operation
\* that touches a slot outside leaves "tainted" or "crashed".)
C18_AccessesInsideBuffer ==
    [][(status = "ok" /\ Allocated) => status' \notin {"tainted", "crashed"}]_vars

\* C19: with len and cap unsigned ints of Width bits and the test
\* (len << 2) mod 2^Width <= cap, dcarr_pop and dcarr_shift never bring the
\* capacity below the length, for every length up to 2^(Width-1), those
\* from 2^(Width-2) on included, where len << 2 wraps.
C19_RemovalKeepsCapacityAboveLength ==
    [][(last'.op \in {"pop", "shift"} /\ status = "ok" /\ len <= cap)
          => len' <= cap']_vars

====
